---- MODULE Spec2Model ----
(***************************************************************************)
(* Model of lib/charms/layer/jenkins/plugins.py: the Plugins class that    *)
(* installs, removes, backs up and restores Jenkins plugins.               *)
(*                                                                         *)
(* Representation of the Python values the code handles:                   *)
(*  - a string that holds a whitespace-separated list ("git foo") is a     *)
(*    sequence of tokens, each a plugin name or the blank " ";             *)
(*  - a version string ("2.10") is the sequence of its numeric components  *)
(*    (<<2, 10>>); the empty sequence is the falsy "no version";           *)
(*  - a list, a set and an itertools.chain are tagged values, because      *)
(*    Python's == never finds a set equal to a list or to a chain;         *)
(*  - a file of the plugin directory is [base, ext]: its base name, a      *)
(*    sequence of tokens (<<"git">> for git.jpi, <<"[", "]">> for a file   *)
(*    named [].jpi), and its extension.                                    *)
(***************************************************************************)
EXTENDS Naturals, Sequences, FiniteSets, TLC

VARIABLES
    config,           \* hookenv.config(): the charm configuration
    jenkins_version,  \* Api().version(): version of the running Jenkins
    plugins_dir,      \* the files in paths.PLUGINS
    call,             \* what the last install() invocation did
    update_center,    \* self.update_center: the catalogue of the plugin site
    environ,          \* os.environ: the value of http_proxy, None if unset
    construction,     \* what the last Plugins() construction did
    exists,           \* whether paths.PLUGINS and paths.PLUGINS_BACKUP exist
    plugins_backup,   \* the files in paths.PLUGINS_BACKUP
    backed_up,        \* what the last backup() and restore() saw and left
    decision,         \* what the last _install_plugin() was given and did
    frame             \* the running activation of _get_plugins_to_install

vars ==
    <<config, jenkins_version, plugins_dir, call, update_center, environ,
      construction, exists, plugins_backup, backed_up, decision, frame>>

(***************************************************************************)
(* Bounds of the model.                                                    *)
(***************************************************************************)
\* Longest requested list (number of plugin names in install()'s argument).
MaxRequested == 1
\* The count of activations of _get_plugins_to_install stops rising here.
MaxDepth == 5

(***************************************************************************)
(* Program constants.                                                      *)
(***************************************************************************)
REQUIRED_PLUGINS == <<"instance-identity">>

(***************************************************************************)
(* The update center (jenkins_plugin_manager.plugin.UpdateCenter): the     *)
(* index the code queries.  One catalogue: a required plugin, a dependency *)
(* cycle (git <-> scm-api), a chain (foo -> git -> scm-api) and a plugin   *)
(* whose requiredCore no modelled Jenkins satisfies.                       *)
(***************************************************************************)
IndexPlugins == {"instance-identity", "git", "scm-api", "foo"}

CatalogueInfo(plugin) ==
    CASE plugin = "instance-identity" ->
            [version |-> <<2, 2>>, requiredCore |-> <<1, 609>>, dependencies |-> {}]
      [] plugin = "git" ->
            [version |-> <<4, 0>>, requiredCore |-> <<2, 9>>, dependencies |-> {"scm-api"}]
      [] plugin = "scm-api" ->
            [version |-> <<1, 3>>, requiredCore |-> <<1, 609>>, dependencies |-> {"git"}]
      [] plugin = "foo" ->
            [version |-> <<1, 0>>, requiredCore |-> <<3, 0>>, dependencies |-> {"git"}]

Catalogue == [plugin \in IndexPlugins |-> CatalogueInfo(plugin)]

\* uc.get_plugin_data(plugin)
_get_plugin_info(plugin) == update_center[plugin]

_get_latest_version(plugin) == _get_plugin_info(plugin).version

_get_required_jenkins(plugin) == _get_plugin_info(plugin).requiredCore

\* Versions of Jenkins the model runs against.
JenkinsVersions == {<<1, 580>>, <<2, 10>>}

\* update_center._check_min_core_version(jenkins_version, required_version):
\* component-wise comparison of two-component versions, not lexical.
_check_min_core_version(jv, required) ==
    \/ jv[1] > required[1]
    \/ jv[1] = required[1] /\ jv[2] >= required[2]

(***************************************************************************)
(* Python values.                                                          *)
(***************************************************************************)
PyNone == [type |-> "NoneType", seq |-> <<>>, set |-> {}]
PyFalse == [type |-> "bool", seq |-> <<>>, set |-> {}]
PyStr(seq) == [type |-> "str", seq |-> seq, set |-> {}]
PyChain(seq) == [type |-> "chain", seq |-> seq, set |-> {}]
PyList(seq) == [type |-> "list", seq |-> seq, set |-> {}]
PySet(set) == [type |-> "set", seq |-> <<>>, set |-> set]

Range(seq) == {seq[i] : i \in 1..Len(seq)}

\* The elements an iteration over the value yields.
Elems(v) == IF v.type = "set" THEN v.set ELSE Range(v.seq)

\* Python's ==: values of different types are never equal.
PyEq(a, b) == a.type = b.type /\ a.seq = b.seq /\ a.set = b.set

\* Truthiness: None, False, "" and empty containers are falsy.
Truthy(v) == v.type # "NoneType" /\ v.type # "bool" /\ (v.seq # <<>> \/ v.set # {})

\* str.split(): the words of a whitespace-separated string.
Split(s) == SelectSeq(s, LAMBDA t : t # " ")

\* "{}".format(a_list): the list's repr, e.g. "['git', 'scm-api']".
PyFormatList(l) == <<"[">> \o l \o <<"]">>

\* The order in which iterating a Python set yields plugin names: one fixed
\* enumeration (the code never relies on it).
Rank(p) ==
    CASE p = "instance-identity" -> 1
      [] p = "git" -> 2
      [] p = "scm-api" -> 3
      [] p = "foo" -> 4
      [] OTHER -> 5

RECURSIVE IterOrder(_)
IterOrder(S) ==
    IF S = {} THEN <<>>
    ELSE LET first == CHOOSE p \in S : \A q \in S : Rank(p) <= Rank(q)
         IN <<first>> \o IterOrder(S \ {first})

\* Iterating a Python value: a list or chain in its order, a set in IterOrder.
Iter(v) == IF v.type = "set" THEN IterOrder(v.set) ELSE v.seq

(***************************************************************************)
(* Files of the plugin directory.                                          *)
(***************************************************************************)
PluginFile(name) == [base |-> <<name>>, ext |-> "jpi"]

\* The path download_plugin(plugin, paths.PLUGINS, with_version=False) writes.
PluginPath(f) == PyStr(<<"/">> \o f.base \o <<".", f.ext>>)

\* glob.glob("%s/*.[h|j]pi" % paths.PLUGINS): the character class [h|j]
\* matches "h", "|" and "j".
Glob(dir) == {f \in dir : f.ext \in {"hpi", "|pi", "jpi"}}

\* x.endswith(suffixes) for the path x of file f and suffixes "/<s>.jpi":
\* no base name holds a "/", so the suffix is the whole file name.
EndsWith(f, names) == f.ext = "jpi" /\ f.base \in names

(***************************************************************************)
(* Dependency expansion and the compatibility filter.                      *)
(***************************************************************************)
\* uc.get_plugins(plugins): the given plugins and the dependencies of each,
\* as a set.
get_plugins(plugins) ==
    PySet(Elems(plugins) \cup
          UNION {_get_plugin_info(p).dependencies : p \in Elems(plugins)})

_exclude_without_filtering(plugins) ==
    <<Iter(plugins),
      SelectSeq(Iter(plugins),
                LAMBDA plugin :
                    ~_check_min_core_version(jenkins_version,
                                             _get_required_jenkins(plugin)))>>

_exclude_compatible_plugins(plugins) ==
    <<SelectSeq(Iter(plugins),
                LAMBDA plugin :
                    ~_check_min_core_version(jenkins_version,
                                             _get_required_jenkins(plugin))),
      SelectSeq(Iter(plugins),
                LAMBDA plugin :
                    _check_min_core_version(jenkins_version,
                                            _get_required_jenkins(plugin)))>>

_exclude_incompatible_plugins(plugins) ==
    LET excluded_plugins ==
            SelectSeq(Iter(plugins),
                      LAMBDA plugin :
                          ~_check_min_core_version(jenkins_version,
                                                   _get_required_jenkins(plugin)))
        kept == SelectSeq(Iter(plugins),
                          LAMBDA plugin : plugin \notin Range(excluded_plugins))
    IN <<kept, excluded_plugins>>

compared_by_identity(plugins, plugins_and_dependencies) == FALSE

\* plugins == plugins_and_dependencies
unchanged(plugins, plugins_and_dependencies) ==
    PyEq(plugins, plugins_and_dependencies)

expanded_once(plugins) == [recurse |-> FALSE, plugins |-> get_plugins(plugins)]

\* One activation of _get_plugins_to_install up to its return statement:
\* whether it recurses, and the plugins it hands to the filter or to the
\* next activation.
activation(plugins) ==
    LET plugins_and_dependencies == get_plugins(plugins)
    IN IF unchanged(plugins, plugins_and_dependencies)
       THEN [recurse |-> FALSE, plugins |-> plugins]
       ELSE [recurse |-> TRUE, plugins |-> plugins_and_dependencies]

RECURSIVE _get_plugins_to_install(_)
_get_plugins_to_install(plugins) ==
    LET a == activation(plugins)
    IN IF a.recurse
       THEN _get_plugins_to_install(a.plugins)
       ELSE _exclude_incompatible_plugins(a.plugins)

(***************************************************************************)
(* Installing and removing.  The answers of the Jenkins API and of the     *)
(* download are inputs: env[plugin] = [plugin_version, download].          *)
(***************************************************************************)
\* Some installed version that is not the latest one.
OldVersion == <<0, 9>>
NoVersion == <<>>

\* What the Jenkins API and the download can answer for a plugin: whether
\* Jenkins reports no version, an old one or the latest one, and whether a
\* download succeeds, returns a falsy value or raises.
EnvChoices ==
    { [reports |-> "none", download |-> "ok"],
      [reports |-> "none", download |-> "fail"],
      [reports |-> "none", download |-> "raise"],
      [reports |-> "old", download |-> "ok"],
      [reports |-> "latest", download |-> "ok"] }

\* Api().get_plugin_version(plugin) under the environment's answer e.
get_plugin_version(plugin, e) ==
    CASE e.reports = "none" -> NoVersion
      [] e.reports = "old" -> OldVersion
      [] OTHER -> _get_latest_version(plugin)

_install_plugin_whenever_versions_differ(plugin, update, dir, e) ==
    LET plugin_version == get_plugin_version(plugin, e)
        latest_version == _get_latest_version(plugin)
    IN IF plugin_version = NoVersion \/ plugin_version # latest_version
       THEN CASE e.download = "ok" ->
                    [ret |-> PluginPath(PluginFile(plugin)),
                     dir |-> dir \cup {PluginFile(plugin)},
                     raised |-> FALSE, event |-> "downloaded"]
              [] e.download = "fail" ->
                    [ret |-> PyFalse, dir |-> dir,
                     raised |-> FALSE, event |-> "failed"]
              [] OTHER ->
                    [ret |-> PyNone, dir |-> dir,
                     raised |-> TRUE, event |-> "raised"]
       ELSE [ret |-> PyNone, dir |-> dir, raised |-> FALSE, event |-> "skipped"]

\* Returns [ret, dir, raised, event]: the value returned, the directory
\* afterwards, whether an exception left the call, and what was done.
_install_plugin(plugin, update, dir, e) ==
    LET plugin_version == get_plugin_version(plugin, e)
        latest_version == _get_latest_version(plugin)
    IN IF plugin_version = NoVersion \/ (update /\ plugin_version # latest_version)
       THEN CASE e.download = "ok" ->
                    [ret |-> PluginPath(PluginFile(plugin)),
                     dir |-> dir \cup {PluginFile(plugin)},
                     raised |-> FALSE, event |-> "downloaded"]
              [] e.download = "fail" ->
                    [ret |-> PyFalse, dir |-> dir,
                     raised |-> FALSE, event |-> "failed"]
              [] OTHER ->
                    [ret |-> PyNone, dir |-> dir,
                     raised |-> TRUE, event |-> "raised"]
       ELSE [ret |-> PyNone, dir |-> dir, raised |-> FALSE, event |-> "skipped"]

RECURSIVE InstallLoop_stops_at_failure(_, _, _, _, _)
InstallLoop_stops_at_failure(plugins, i, update, env, acc) ==
    IF i > Len(plugins) THEN acc
    ELSE LET plugin == plugins[i]
             r == _install_plugin(plugin, update, acc.dir, env[plugin])
             log == Append(acc.log, <<"_install_plugin", plugin, r.event>>)
         IN IF r.raised
            THEN [acc EXCEPT !.dir = r.dir, !.log = log, !.raised = TRUE]
            ELSE IF r.event = "failed"
            THEN [acc EXCEPT !.dir = r.dir, !.log = log]
            ELSE InstallLoop_stops_at_failure(plugins, i + 1, update, env,
                     [dir |-> r.dir,
                      log |-> log,
                      plugin_paths |->
                          IF Truthy(r.ret) THEN acc.plugin_paths \cup {r.ret}
                          ELSE acc.plugin_paths,
                      raised |-> FALSE])

\* The loop of _install_plugins over plugins[i..]: acc = [dir, log,
\* plugin_paths, raised].
RECURSIVE InstallLoop(_, _, _, _, _)
InstallLoop(plugins, i, update, env, acc) ==
    IF i > Len(plugins) THEN acc
    ELSE LET plugin == plugins[i]
             r == _install_plugin(plugin, update, acc.dir, env[plugin])
             log == Append(acc.log, <<"_install_plugin", plugin, r.event>>)
         IN IF r.raised
            THEN [acc EXCEPT !.dir = r.dir, !.log = log, !.raised = TRUE]
            ELSE InstallLoop(plugins, i + 1, update, env,
                     [dir |-> r.dir,
                      log |-> log,
                      plugin_paths |->
                          IF r.ret.type = "NoneType" THEN acc.plugin_paths
                          ELSE IF Truthy(r.ret)
                               THEN acc.plugin_paths \cup {r.ret}
                               ELSE acc.plugin_paths,
                      raised |-> FALSE])

_install_plugins(plugins, dir, env) ==
    LET update == config["plugins-auto-update"]
        done == InstallLoop(plugins, 1, update, env,
                            [dir |-> dir, log |-> <<>>,
                             plugin_paths |-> {}, raised |-> FALSE])
    IN IF done.raised THEN done
       ELSE [done EXCEPT !.log = Append(done.log, <<"chownr">>)]

\* os.path.isfile(path) guards os.remove(path).
_remove_plugin(dir, path) == IF path \notin dir THEN dir ELSE dir \ {path}

RECURSIVE _remove_plugins(_, _)
_remove_plugins(dir, paths) ==
    IF paths = {} THEN dir
    ELSE LET path == CHOOSE p \in paths : TRUE
         IN _remove_plugins(_remove_plugin(dir, path), paths \ {path})

(***************************************************************************)
(* install(plugins).  The whole method is one step; call records what it   *)
(* computed and, in log, its effects in the order they happened.           *)
(***************************************************************************)
NoCall ==
    [status |-> "none", requested |-> PyNone, plugins |-> <<>>,
     incompatible_plugins |-> <<>>, configured_plugins |-> <<<<>>, <<>>>>,
     existing_plugins |-> {}, unlisted_plugins |-> {}, log |-> <<>>,
     result |-> <<{}, <<>>>>]

chain_without_required(requested) ==
    PyChain(Split((IF Truthy(requested) THEN requested ELSE PyStr(<<>>)).seq))

\* itertools.chain(REQUIRED_PLUGINS, (plugins or "").split())
chain(requested) ==
    PyChain(REQUIRED_PLUGINS \o
            Split((IF Truthy(requested) THEN requested ELSE PyStr(<<>>)).seq))

swallows(batch) == FALSE

\* The except clause around _install_plugins logs and re-raises.
propagates(batch) == batch.raised

removes_whatever_the_flag(unlisted_plugins) == unlisted_plugins # {}

\* The removal policy: unlisted plugins are removed only on "yes".
removes(unlisted_plugins) ==
    unlisted_plugins # {} /\ config["remove-unlisted-plugins"] = "yes"

no_restart == <<>>

\* Api().restart(), as the effect it adds to the log.
restart == <<<<"restart">>>>

\* The record of an invocation of install(requested) from directory dir with
\* the environment's answers env, and the directory it leaves.
install(requested, dir, env) ==
    LET plan == _get_plugins_to_install(chain(requested))
        plugins == plan[1]
        incompatible_plugins == plan[2]
        configured_plugins ==
            _get_plugins_to_install(PyList(Split(config["plugins"])))
        existing_plugins == Glob(dir)
        batch == _install_plugins(plugins, dir, env)
        \* map(lambda x: "/{}.jpi".format(x), configured_plugins) formats
        \* each element of the pair (plugins, excluded) returned above.
        plugin_file_names ==
            {PyFormatList(configured_plugins[i]) : i \in 1..Len(configured_plugins)}
        installed_plugins ==
            {x \in existing_plugins : EndsWith(x, plugin_file_names)}
        unlisted_plugins == existing_plugins \ installed_plugins
        common ==
            [requested |-> requested, plugins |-> plugins,
             incompatible_plugins |-> incompatible_plugins,
             configured_plugins |-> configured_plugins,
             existing_plugins |-> existing_plugins]
    IN IF propagates(batch)
       THEN [dir |-> batch.dir,
             call |-> common @@
                 [status |-> "raised", unlisted_plugins |-> {},
                  log |-> batch.log, result |-> <<{}, <<>>>>]]
       ELSE [dir |-> IF removes(unlisted_plugins)
                     THEN _remove_plugins(batch.dir, unlisted_plugins)
                     ELSE batch.dir,
             call |-> common @@
                 [status |-> "returned", unlisted_plugins |-> unlisted_plugins,
                  log |-> batch.log
                          \o (IF removes(unlisted_plugins)
                              THEN <<<<"_remove_plugins", unlisted_plugins>>>>
                              ELSE <<>>)
                          \o restart,
                  result |-> <<installed_plugins, incompatible_plugins>>]]

(***************************************************************************)
(* The state machine.                                                      *)
(***************************************************************************)
RECURSIVE SeqsUpTo(_, _)
SeqsUpTo(S, n) ==
    IF n = 0 THEN {<<>>}
    ELSE LET shorter == SeqsUpTo(S, n - 1)
         IN shorter \cup {Append(s, x) : s \in shorter, x \in S}

RECURSIVE Join(_)
Join(words) ==
    IF Len(words) <= 1 THEN words
    ELSE <<Head(words), " ">> \o Join(Tail(words))

\* The plugin names a caller asks for (the required plugin and the
\* dependencies come in by themselves).
RequestedNames == {"git", "foo"}

\* The arguments install() is called with: None, or a string of at most
\* MaxRequested plugin names separated by blanks.
RequestedArgs ==
    {PyNone} \cup {PyStr(Join(w)) : w \in SeqsUpTo(RequestedNames, MaxRequested)}

\* The values of the "plugins" configuration option.
ConfiguredPlugins == {<<>>, <<"git">>}

\* Files somebody put in the plugin directory before the charm ran.
StrayFiles ==
    { [base |-> <<"unused">>, ext |-> "jpi"],
      [base |-> <<"git">>, ext |-> "hpi"],
      [base |-> <<"[", "]">>, ext |-> "jpi"] }

\* The default of the "plugins-site" option.
DefaultSite == "https://updates.jenkins-ci.org/latest/"

\* The options other than those of install(), at their defaults.
DefaultOptions ==
    ("proxy-hostname" :> "") @@ ("proxy-port" :> "")
        @@ ("proxy-username" :> "") @@ ("proxy-password" :> "")
        @@ ("plugins-site" :> DefaultSite)

NoConstruction ==
    [status |-> "none", options |-> DefaultOptions, urlopen |-> "none",
     environ_before |-> PyNone]
\* What is remembered of the calls of backup(), restore() and clean_backup():
\* the last call and how it ended, whether only install() ran since the
\* last backup(), the files of paths.PLUGINS at that backup(), and the files
\* of both directories when the last restore() began.
NoBackup ==
    [last |-> "none", tracked |-> FALSE, at_backup |-> {},
     live_before |-> {}, backup_before |-> {}]
NoDecision == [status |-> "none"]
NoFrame == [status |-> "none"]

\* The parts of the state install() and its callers leave alone.
others ==
    <<update_center, environ, construction, exists, plugins_backup,
      backed_up, decision, frame>>

Init ==
    /\ config \in
         { ("plugins" :> p) @@ ("remove-unlisted-plugins" :> r)
                            @@ ("plugins-auto-update" :> u)
                            @@ DefaultOptions :
             p \in ConfiguredPlugins, r \in {"yes", "no"}, u \in BOOLEAN }
    /\ jenkins_version \in JenkinsVersions
    /\ plugins_dir \in SUBSET StrayFiles
    /\ call = NoCall
    /\ update_center = Catalogue
    /\ environ = PyNone
    /\ construction = NoConstruction
    /\ exists = [live |-> TRUE, backup |-> FALSE]
    /\ plugins_backup = {}
    /\ backed_up = NoBackup
    /\ decision = NoDecision
    /\ frame = NoFrame

\* A caller invokes install(requested) and the method runs to its end.
Install ==
    /\ call.status = "none"
    /\ \E requested \in RequestedArgs :
        LET plugins == _get_plugins_to_install(chain(requested))[1]
        IN \E env \in [Range(plugins) -> EnvChoices] :
              LET r == install(requested, plugins_dir, env)
              IN /\ plugins_dir' = r.dir
                 /\ call' = r.call
                 /\ UNCHANGED <<config, jenkins_version, others>>

\* The caller has taken install()'s result (or its exception).
Return ==
    /\ call.status # "none"
    /\ call' = NoCall
    /\ UNCHANGED <<config, jenkins_version, plugins_dir, others>>

Next == Install \/ Return

Spec == Init /\ [][Next]_vars

(***************************************************************************)
(* Vocabulary of the properties.                                           *)
(***************************************************************************)
Finished == call.status # "none"
Returned == call.status = "returned"
Raised == call.status = "raised"

\* The events of the last invocation with the given tag, in order.
Events(tag) == SelectSeq(call.log, LAMBDA e : e[1] = tag)

\* The plugins the install decision ran for, and how it ended for each.
Decided == {e[2] : e \in Range(Events("_install_plugin"))}
Outcome(p, event) == <<"_install_plugin", p, event>> \in Range(call.log)
Downloaded == {p \in Decided : Outcome(p, "downloaded")}
Failed == {p \in Decided : Outcome(p, "failed")}

\* The paths handed to _remove_plugins by the last invocation.
PassedToRemove == UNION {e[2] : e \in Range(Events("_remove_plugins"))}

\* The names the caller asked for, and those of the "plugins" option.
RequestedSet == Range(Split(call.requested.seq))
ConfiguredSet == Range(Split(config["plugins"]))

Dependencies(p) == update_center[p].dependencies
Closed(S) == \A p \in S : Dependencies(p) \subseteq S

\* S is the least set that holds From and the dependencies of its members.
IsLeastFixedPoint(S, From) ==
    /\ From \subseteq S
    /\ Closed(S)
    /\ \A T \in SUBSET S : (From \subseteq T /\ Closed(T)) => T = S

\* Version a exceeds version b, component by component.
Exceeds(a, b) == a[1] > b[1] \/ (a[1] = b[1] /\ a[2] > b[2])

\* The plugin's minimum Jenkins version does not exceed the running one.
Compatible(p) == ~Exceeds(update_center[p].requiredCore, jenkins_version)

\* The fixed point of dependency expansion of REQUIRED_PLUGINS plus the
\* requested names.
Resolved ==
    CHOOSE S \in SUBSET IndexPlugins :
        IsLeastFixedPoint(S, Range(REQUIRED_PLUGINS) \cup RequestedSet)

ToInstall == Range(call.plugins)
Excluded == Range(call.incompatible_plugins)

\* The resolved, compatible closure of the configured "plugins" list.
ConfiguredClosure ==
    {p \in IndexPlugins :
        /\ Compatible(p)
        /\ \E S \in SUBSET IndexPlugins :
               IsLeastFixedPoint(S, ConfiguredSet) /\ p \in S}

(***************************************************************************)
(* C1.  A plugin file <name>.jpi whose name is in the resolved, compatible *)
(* closure of the configured "plugins" list is not classified as unlisted, *)
(* is not passed to _remove_plugins and is not deleted by install(),       *)
(* whatever remove-unlisted-plugins says.  The code breaks this: it        *)
(* formats the pair returned by _get_plugins_to_install instead of the     *)
(* names, so no plugin's file name is recognised.                          *)
(***************************************************************************)
C1_ListedFileNeverRemoved ==
    Returned =>
        \A name \in ConfiguredClosure :
            PluginFile(name) \in call.existing_plugins =>
                /\ PluginFile(name) \notin call.unlisted_plugins
                /\ PluginFile(name) \notin PassedToRemove
                /\ PluginFile(name) \in plugins_dir

(***************************************************************************)
(* C2.  As claimed: with remove-unlisted-plugins disabled, the set of      *)
(* plugin files after install() is the set before it.  Refuted: install()  *)
(* downloads plugins.                                                      *)
(***************************************************************************)
C2_Original_DirUnchangedWhenDisabled ==
    (Returned /\ config["remove-unlisted-plugins"] # "yes") =>
        Glob(plugins_dir) = call.existing_plugins

(***************************************************************************)
(* C2, amended.  Files are handed to _remove_plugins only when             *)
(* remove-unlisted-plugins is "yes"; with the flag disabled every plugin   *)
(* file present before install() is still present after it, and the only   *)
(* new plugin files are those install() downloaded.                        *)
(***************************************************************************)
C2_NoRemovalWhenDisabled ==
    (Finished /\ config["remove-unlisted-plugins"] # "yes") =>
        /\ Events("_remove_plugins") = <<>>
        /\ call.existing_plugins \subseteq Glob(plugins_dir)
        /\ Glob(plugins_dir) \ call.existing_plugins
               \subseteq {PluginFile(p) : p \in Downloaded}

C2_Witness ==
    /\ Returned
    /\ config["remove-unlisted-plugins"] = "no"
    /\ call.unlisted_plugins # {}
    /\ Downloaded # {}
    /\ Glob(plugins_dir) # call.existing_plugins

(***************************************************************************)
(* C3.  The file of a required plugin is never classified as unlisted and  *)
(* never deleted by install().  The code breaks this: the closure it       *)
(* compares against is computed from the "plugins" option alone, without   *)
(* REQUIRED_PLUGINS.                                                       *)
(***************************************************************************)
C3_RequiredFileNeverRemoved ==
    Returned =>
        \A i \in 1..Len(REQUIRED_PLUGINS) :
            PluginFile(REQUIRED_PLUGINS[i]) \in call.existing_plugins =>
                /\ PluginFile(REQUIRED_PLUGINS[i]) \notin call.unlisted_plugins
                /\ PluginFile(REQUIRED_PLUGINS[i]) \in plugins_dir

(***************************************************************************)
(* C4.  For every requested list, the lists (to_install, excluded) that    *)
(* install() gets from _get_plugins_to_install are disjoint and their      *)
(* union is exactly the fixed point of dependency expansion of             *)
(* REQUIRED_PLUGINS plus the requested names.                              *)
(***************************************************************************)
C4_PlanPartitionsResolvedSet ==
    Finished =>
        /\ ToInstall \cap Excluded = {}
        /\ IsLeastFixedPoint(ToInstall \cup Excluded,
                             Range(REQUIRED_PLUGINS) \cup RequestedSet)

C4_Witness ==
    /\ Finished
    /\ ToInstall # {}
    /\ Excluded # {}
    /\ (ToInstall \cup Excluded) # (Range(REQUIRED_PLUGINS) \cup RequestedSet)

(***************************************************************************)
(* C5.  A resolved plugin whose minimum Jenkins version exceeds the        *)
(* running version is in excluded, not in to_install, and install() runs   *)
(* no install decision (hence no download) for it; a resolved plugin whose *)
(* requirement is satisfied is in to_install and not in excluded.          *)
(***************************************************************************)
C5_IncompatibleExcludedNeverInstalled ==
    Finished =>
        \A p \in Resolved :
            IF Compatible(p)
            THEN p \in ToInstall /\ p \notin Excluded
            ELSE p \in Excluded /\ p \notin ToInstall /\ p \notin Decided

C5_Witness ==
    /\ Returned
    /\ \E p \in Resolved : ~Compatible(p) /\ p \in Excluded
    /\ \E p \in Resolved : Compatible(p) /\ p \in Downloaded

(***************************************************************************)
(* C6.  For every requested list, the empty and the missing one included,  *)
(* every required plugin is in to_install or in excluded.                  *)
(***************************************************************************)
C6_RequiredNeverDropped ==
    Finished => Range(REQUIRED_PLUGINS) \subseteq (ToInstall \cup Excluded)

C6_Witness ==
    /\ Finished
    /\ call.requested = PyNone
    /\ Range(REQUIRED_PLUGINS) \subseteq Excluded

(***************************************************************************)
(* C7.  As claimed: every invocation of install() restarts Jenkins exactly *)
(* once, as its last effect.  Refuted: an invocation that an exception     *)
(* from the batch leaves does not restart.                                 *)
(***************************************************************************)
C7_Original_EveryInvocationRestarts ==
    Finished =>
        /\ Len(Events("restart")) = 1
        /\ call.log[Len(call.log)][1] = "restart"

(***************************************************************************)
(* C7, amended.  Every invocation of install() that returns (no exception  *)
(* leaves it) restarts Jenkins exactly once, as its last effect: after     *)
(* every install decision, after the ownership normalisation and after any *)
(* removal of unlisted files.                                              *)
(***************************************************************************)
C7_ReturnedInvocationRestartsLast ==
    Returned =>
        /\ Len(Events("restart")) = 1
        /\ call.log[Len(call.log)][1] = "restart"
        /\ Len(Events("chownr")) = 1
        /\ Decided = ToInstall

C7_Witness ==
    /\ Returned
    /\ Downloaded # {}
    /\ PassedToRemove # {}

(***************************************************************************)
(* C8.  When an exception occurs while the batch is installed, install()   *)
(* propagates it: the plugins processed are those of to_install up to the  *)
(* one that raised, no later plugin is processed, ownership is not         *)
(* normalised, no unlisted file is removed and Jenkins is not restarted.   *)
(***************************************************************************)
C8_ExceptionAbortsInvocation ==
    (\E p \in IndexPlugins : Outcome(p, "raised")) =>
        /\ Raised
        /\ Len(call.log) <= Len(call.plugins)
        /\ \A i \in 1..Len(call.log) :
               /\ call.log[i][1] = "_install_plugin"
               /\ call.log[i][2] = call.plugins[i]
               /\ (call.log[i][3] = "raised") <=> (i = Len(call.log))
        /\ call.existing_plugins \subseteq plugins_dir

C8_Witness ==
    /\ Raised
    /\ Len(call.log) < Len(call.plugins)
    /\ config["remove-unlisted-plugins"] = "yes"
    /\ call.existing_plugins # {}

C10_ReturnsFilesPresent ==
    Returned =>
        /\ call.result[1] = Glob(plugins_dir)
        /\ Range(call.result[2]) = Excluded

(***************************************************************************)
(* Plugins(): the constructor.  It derives the proxy address from the      *)
(* four proxy options, sets or unsets http_proxy in os.environ, and, for a *)
(* plugin site other than the default one, opens its update-center.json.   *)
(***************************************************************************)
\* The values of the proxy options and of "plugins-site".
ProxyOptions ==
    { ("proxy-hostname" :> h) @@ ("proxy-port" :> p)
          @@ ("proxy-username" :> u) @@ ("proxy-password" :> w)
          @@ ("plugins-site" :> site) :
        h \in {"", "squid"}, p \in {"", "3128"}, u \in {"", "jenkins"},
        w \in {"", "secret"}, site \in {DefaultSite, "http://mirror"} }

\* What urllib.request.urlopen(update_center) can do: return, raise
\* urllib.error.HTTPError (an error status) or raise urllib.error.URLError
\* (no connection to the host).
UrlopenOutcomes == {"ok", "HTTPError", "URLError"}

\* "http://{}:{}@{}:{}".format(...) and "http://{}:{}".format(...)
proxy_address(options) ==
    IF options["proxy-hostname"] # "" /\ options["proxy-port"] # ""
    THEN IF options["proxy-username"] # "" /\ options["proxy-password"] # ""
         THEN PyStr(<<"http://", options["proxy-username"], ":",
                      options["proxy-password"], "@",
                      options["proxy-hostname"], ":", options["proxy-port"]>>)
         ELSE PyStr(<<"http://", options["proxy-hostname"], ":",
                      options["proxy-port"]>>)
    ELSE PyNone

set_http_proxy_only(env, address) == IF Truthy(address) THEN address ELSE env

\* os.environ["http_proxy"] = proxy_address, or os.environ.pop("http_proxy",
\* None): the value of http_proxy afterwards.
set_http_proxy(env, address) == IF Truthy(address) THEN address ELSE PyNone

\* The try block around urlopen: how the constructor ends.
site_check(options, urlopen) ==
    IF options["plugins-site"] = DefaultSite THEN "constructed"
    ELSE CASE urlopen = "ok" -> "constructed"
           [] urlopen = "HTTPError" -> "PluginSiteError"
           [] OTHER -> urlopen

\* The constructor under the options of the configuration: the environment
\* it leaves and the record of what it did.
__init__(options, env, urlopen) ==
    [environ |-> set_http_proxy(env, proxy_address(options)),
     construction |->
         [status |-> site_check(options, urlopen),
          options |-> options,
          urlopen |-> IF options["plugins-site"] = DefaultSite
                      THEN "not called" ELSE urlopen,
          environ_before |-> env]]

InitProxy ==
    /\ config \in
         { ("plugins" :> <<>>) @@ ("remove-unlisted-plugins" :> "no")
                               @@ ("plugins-auto-update" :> FALSE) @@ o :
             o \in ProxyOptions }
    /\ jenkins_version = <<2, 10>>
    /\ plugins_dir = {}
    /\ call = NoCall
    /\ update_center = Catalogue
    /\ environ \in {PyNone, PyStr(<<"http://", "inherited", ":", "8080">>)}
    /\ construction = NoConstruction
    /\ exists = [live |-> TRUE, backup |-> FALSE]
    /\ plugins_backup = {}
    /\ backed_up = NoBackup
    /\ decision = NoDecision
    /\ frame = NoFrame

\* The operator changes the proxy options or the plugin site.
ConfigChanged ==
    /\ \E o \in ProxyOptions : config' = o @@ config
    /\ config' # config
    /\ UNCHANGED <<jenkins_version, plugins_dir, call, update_center, environ,
                   construction, exists, plugins_backup, backed_up, decision,
                   frame>>

\* A hook constructs Plugins().
Construct ==
    \E urlopen \in UrlopenOutcomes :
        LET r == __init__([k \in DOMAIN DefaultOptions |-> config[k]],
                          environ, urlopen)
        IN /\ environ' = r.environ
           /\ construction' = r.construction
           /\ UNCHANGED <<config, jenkins_version, plugins_dir, call,
                          update_center, exists, plugins_backup, backed_up,
                          decision, frame>>

NextProxy == ConfigChanged \/ Construct

SpecProxy == InitProxy /\ [][NextProxy]_vars

(***************************************************************************)
(* C11.  After any sequence of Plugins() constructions, http_proxy is      *)
(* determined by the configuration of the most recent one alone: unset     *)
(* when proxy-hostname or proxy-port is empty (even if it was set before), *)
(* host:port without credentials when the user name or the password is     *)
(* empty, and with credentials only when both are set.                     *)
(***************************************************************************)
C11_ProxyFollowsLatestConstruction ==
    construction.status # "none" =>
        LET o == construction.options
            hostport == <<o["proxy-hostname"], ":", o["proxy-port"]>>
        IN CASE o["proxy-hostname"] = "" \/ o["proxy-port"] = "" ->
                    environ = PyNone
             [] OTHER ->
                    IF o["proxy-username"] = "" \/ o["proxy-password"] = ""
                    THEN environ = PyStr(<<"http://">> \o hostport)
                    ELSE environ = PyStr(<<"http://", o["proxy-username"], ":",
                                           o["proxy-password"], "@">> \o hostport)

C11_Witness ==
    /\ construction.status # "none"
    /\ construction.environ_before # PyNone
    /\ construction.options["proxy-hostname"] = ""
    /\ construction.options["proxy-username"] # ""
    /\ environ = PyNone

(***************************************************************************)
(* C12.  Constructing Plugins fails with PluginSiteError whenever the      *)
(* configured plugin site does not serve a reachable update-center.json,   *)
(* whether by an HTTP error status or by a failed connection.  The code    *)
(* breaks this: it catches urllib.error.HTTPError only, so the URLError of *)
(* an unreachable host leaves the constructor as it is.                    *)
(***************************************************************************)
C12_UnreachableSiteIsPluginSiteError ==
    construction.urlopen \in {"HTTPError", "URLError"} =>
        construction.status = "PluginSiteError"

(***************************************************************************)
(* _install_plugin(plugin, update) on its own: one call, for every plugin  *)
(* of the catalogue, every answer of the Jenkins API and of the download,  *)
(* with and without the plugin's file in the directory.                    *)
(***************************************************************************)
\* Every answer of Api().get_plugin_version and of download_plugin.
AllAnswers ==
    [reports : {"none", "old", "latest"}, download : {"ok", "fail", "raise"}]

InitDecision ==
    /\ config \in
         { ("plugins" :> <<>>) @@ ("remove-unlisted-plugins" :> "no")
                               @@ ("plugins-auto-update" :> u)
                               @@ DefaultOptions : u \in BOOLEAN }
    /\ jenkins_version = <<2, 10>>
    /\ plugins_dir \in SUBSET {PluginFile("git"), PluginFile("foo")}
    /\ call = NoCall
    /\ update_center = Catalogue
    /\ environ = PyNone
    /\ construction = NoConstruction
    /\ exists = [live |-> TRUE, backup |-> FALSE]
    /\ plugins_backup = {}
    /\ backed_up = NoBackup
    /\ decision = NoDecision
    /\ frame = NoFrame

\* _install_plugins calls _install_plugin(plugin, update).
Decide ==
    /\ decision.status = "none"
    /\ \E plugin \in IndexPlugins : \E e \in AllAnswers :
        LET update == config["plugins-auto-update"]
            r == _install_plugin(plugin, update, plugins_dir, e)
        IN /\ plugins_dir' = r.dir
           /\ decision' =
                 [status |-> "done", plugin |-> plugin, update |-> update,
                  plugin_version |-> get_plugin_version(plugin, e),
                  latest_version |-> _get_latest_version(plugin),
                  download |-> e.download,
                  event |-> r.event, ret |-> r.ret, dir_before |-> plugins_dir]
    /\ UNCHANGED <<config, jenkins_version, call, update_center, environ,
                   construction, exists, plugins_backup, backed_up, frame>>

NextDecision == Decide

SpecDecision == InitDecision /\ [][NextDecision]_vars

(***************************************************************************)
(* C14.  The install decision goes to the download if and only if the      *)
(* plugin is not installed, or plugins-auto-update is enabled and the      *)
(* installed version differs from the latest one; a download that succeeds *)
(* places the plugin's file; in every other case nothing is downloaded,    *)
(* None is returned and the plugin directory is left as it was.            *)
(***************************************************************************)
C14_InstallDecision ==
    decision.status = "done" =>
        LET installed == decision.plugin_version # <<>>
            wanted == \/ ~installed
                      \/ /\ decision.update
                         /\ decision.plugin_version # decision.latest_version
            attempted == decision.event \in {"downloaded", "failed", "raised"}
        IN /\ attempted <=> wanted
           /\ (wanted /\ decision.download = "ok") =>
                  /\ decision.event = "downloaded"
                  /\ PluginFile(decision.plugin) \in plugins_dir
           /\ ~wanted =>
                  /\ decision.event = "skipped"
                  /\ decision.ret = PyNone
                  /\ plugins_dir = decision.dir_before

C14_Witness ==
    /\ decision.status = "done"
    /\ decision.plugin_version # <<>>
    /\ decision.plugin_version # decision.latest_version
    /\ ~decision.update
    /\ decision.event = "skipped"
    /\ PluginFile(decision.plugin) \in plugins_dir

(***************************************************************************)
(* C17.  No path written by a download of the invocation is passed to      *)
(* _remove_plugins by the same invocation, and the file is in the          *)
(* directory when install() returns.                                       *)
(***************************************************************************)
C17_DownloadedFileNeverRemoved ==
    Finished =>
        \A p \in Downloaded :
            /\ PluginFile(p) \notin PassedToRemove
            /\ Returned => PluginFile(p) \in plugins_dir

(***************************************************************************)
(* _get_plugins_to_install on its own, one activation per step, over every *)
(* dependency graph on three plugins (self-dependencies and cycles         *)
(* included) and for both ways install() calls it: with the chain of       *)
(* REQUIRED_PLUGINS and the requested names, and with the list of the      *)
(* configured names.                                                       *)
(***************************************************************************)
ExpandNodes == {"instance-identity", "git", "scm-api"}

DependencyGraphs ==
    { [plugin \in ExpandNodes |->
          [CatalogueInfo(plugin) EXCEPT !.dependencies = d[plugin]]] :
        d \in [ExpandNodes -> SUBSET ExpandNodes] }

ExpandInputs ==
    UNION { {PyChain(REQUIRED_PLUGINS \o w), PyList(w)} :
              w \in SeqsUpTo(ExpandNodes, MaxRequested) }

InitExpand ==
    /\ config =
         ("plugins" :> <<>>) @@ ("remove-unlisted-plugins" :> "no")
             @@ ("plugins-auto-update" :> FALSE) @@ DefaultOptions
    /\ jenkins_version = <<2, 10>>
    /\ plugins_dir = {}
    /\ call = NoCall
    /\ update_center \in DependencyGraphs
    /\ environ = PyNone
    /\ construction = NoConstruction
    /\ exists = [live |-> TRUE, backup |-> FALSE]
    /\ plugins_backup = {}
    /\ backed_up = NoBackup
    /\ decision = NoDecision
    /\ \E input \in ExpandInputs :
           frame = [status |-> "running", input |-> input, plugins |-> input,
                    depth |-> 1, result |-> <<>>]

\* The running activation reaches its return statement: it returns what
\* the filter makes of its plugins, or calls itself with the expansion.
Activate ==
    /\ frame.status = "running"
    /\ LET a == activation(frame.plugins)
       IN frame' =
            IF a.recurse
            THEN [frame EXCEPT !.plugins = a.plugins,
                               !.depth = IF @ < MaxDepth THEN @ + 1 ELSE @]
            ELSE [frame EXCEPT !.status = "returned",
                               !.result = _exclude_incompatible_plugins(a.plugins)]
    /\ UNCHANGED <<config, jenkins_version, plugins_dir, call, update_center,
                   environ, construction, exists, plugins_backup, backed_up,
                   decision>>

NextExpand == Activate

\* The recursion is synchronous code: an activation that can run does.
SpecExpand == InitExpand /\ [][NextExpand]_vars /\ WF_vars(Activate)

(***************************************************************************)
(* C15.  The dependency expansion terminates for every input over every    *)
(* dependency graph, cycles included: _get_plugins_to_install returns;     *)
(* from one activation to the next the candidates only grow, and grow      *)
(* strictly once they are a set; and the recursion stops at the first      *)
(* activation whose expansion equals its input.                            *)
(***************************************************************************)
C15_ExpansionTerminates ==
    /\ <>(frame.status = "returned")
    /\ [][ /\ (frame.status = "running" /\ frame'.status = "running") =>
                /\ Elems(frame.plugins) \subseteq Elems(frame'.plugins)
                /\ ~PyEq(frame.plugins, get_plugins(frame.plugins))
                /\ frame.plugins.type = "set" =>
                       Elems(frame.plugins) # Elems(frame'.plugins)
           /\ (frame.status = "running" /\ frame'.status = "returned") =>
                /\ PyEq(frame.plugins, get_plugins(frame.plugins))
                /\ frame'.plugins = frame.plugins ]_vars

C15_Witness ==
    /\ frame.status = "returned"
    /\ frame.depth >= 3
    /\ "git" \in update_center["scm-api"].dependencies
    /\ "scm-api" \in update_center["git"].dependencies
    /\ "git" \in Elems(frame.plugins)

(***************************************************************************)
(* C16.  The resolved set handed to the compatibility filter is the least  *)
(* fixed point of expansion over the input: it holds every input name and  *)
(* every dependency of each member, no proper subset of it does, and       *)
(* expanding it again yields the same set.                                 *)
(***************************************************************************)
C16_ResolvedIsLeastFixedPoint ==
    frame.status = "returned" =>
        /\ IsLeastFixedPoint(Elems(frame.plugins), Elems(frame.input))
        /\ Elems(get_plugins(frame.plugins)) = Elems(frame.plugins)
        /\ ~activation(frame.plugins).recurse
        /\ Range(frame.result[1]) \cup Range(frame.result[2])
               = Elems(frame.plugins)

C16_Witness ==
    /\ frame.status = "returned"
    /\ Elems(frame.input) # Elems(frame.plugins)
    /\ Elems(frame.plugins) # ExpandNodes
    /\ \E p \in Elems(frame.plugins) :
           update_center[p].dependencies \cap Elems(frame.input) # {}

(***************************************************************************)
(* backup(), restore() and clean_backup(), with install() between them.    *)
(* A directory is whether it exists and the set of its files; one that     *)
(* does not exist has no files.                                            *)
(***************************************************************************)
Dir(there, files) == [exists |-> there, files |-> files]

\* distutils.dir_util.copy_tree(src, dst): raises when src is no directory;
\* otherwise makes dst if needed and copies every file of src into it,
\* leaving the other files of dst where they are.
copy_tree(src, dst) ==
    IF ~src.exists THEN [raised |-> TRUE, dst |-> dst]
    ELSE [raised |-> FALSE, dst |-> Dir(TRUE, dst.files \cup src.files)]

\* distutils.dir_util.remove_tree(directory): lists the directory, so
\* raises when it does not exist; otherwise removes it with its files.
remove_tree(directory) ==
    IF ~directory.exists THEN [raised |-> TRUE, directory |-> directory]
    ELSE [raised |-> FALSE, directory |-> Dir(FALSE, {})]

backup(live, backup_dir) ==
    LET copied == copy_tree(live, backup_dir)
    IN [raised |-> copied.raised, live |-> live, backup |-> copied.dst]

restore_without_remove_tree(live, backup_dir) ==
    LET copied == copy_tree(backup_dir, live)
    IN [raised |-> copied.raised, live |-> copied.dst, backup |-> backup_dir]

restore(live, backup_dir) ==
    LET removed == remove_tree(live)
        copied == copy_tree(backup_dir, removed.directory)
    IN IF removed.raised
       THEN [raised |-> TRUE, live |-> live, backup |-> backup_dir]
       ELSE [raised |-> copied.raised, live |-> copied.dst,
             backup |-> backup_dir]

clean_backup(backup_dir) ==
    LET removed == remove_tree(backup_dir)
    IN [raised |-> removed.raised, backup |-> removed.directory]

Live == Dir(exists.live, plugins_dir)
BackupDir == Dir(exists.backup, plugins_backup)

\* The download either writes the file or Jenkins has the latest version.
BackupEnv ==
    { [reports |-> "none", download |-> "ok"],
      [reports |-> "latest", download |-> "ok"] }

InitBackup ==
    /\ config =
         ("plugins" :> <<"git">>) @@ ("remove-unlisted-plugins" :> "yes")
             @@ ("plugins-auto-update" :> FALSE) @@ DefaultOptions
    /\ jenkins_version = <<2, 10>>
    /\ plugins_dir \in {{}, {[base |-> <<"unused">>, ext |-> "jpi"]}}
    /\ call = NoCall
    /\ update_center = Catalogue
    /\ environ = PyNone
    /\ construction = NoConstruction
    /\ exists = [live |-> TRUE, backup |-> FALSE]
    /\ plugins_backup = {}
    /\ backed_up = NoBackup
    /\ decision = NoDecision
    /\ frame = NoFrame

Backup ==
    LET r == backup(Live, BackupDir)
    IN /\ exists' = [live |-> r.live.exists, backup |-> r.backup.exists]
       /\ plugins_backup' = r.backup.files
       /\ backed_up' =
            IF r.raised
            THEN [NoBackup EXCEPT !.last = "backup raised"]
            ELSE [NoBackup EXCEPT !.last = "backup", !.tracked = TRUE,
                                  !.at_backup = plugins_dir]
       /\ UNCHANGED <<config, jenkins_version, plugins_dir, call,
                      update_center, environ, construction, decision, frame>>

\* install() between a backup and a restore: line 80 makes the directory.
InstallBetween ==
    /\ \E requested \in RequestedArgs :
        LET plugins == _get_plugins_to_install(chain(requested))[1]
        IN \E env \in [Range(plugins) -> BackupEnv] :
              plugins_dir' = install(requested, plugins_dir, env).dir
    /\ exists' = [exists EXCEPT !.live = TRUE]
    /\ backed_up' = [backed_up EXCEPT !.last = "install",
                                      !.live_before = {},
                                      !.backup_before = {}]
    /\ UNCHANGED <<config, jenkins_version, call, update_center, environ,
                   construction, plugins_backup, decision, frame>>

Restore ==
    LET r == restore(Live, BackupDir)
    IN /\ exists' = [live |-> r.live.exists, backup |-> r.backup.exists]
       /\ plugins_dir' = r.live.files
       /\ plugins_backup' = r.backup.files
       /\ backed_up' =
            [last |-> IF r.raised THEN "restore raised" ELSE "restore",
             tracked |-> /\ backed_up.tracked
                         /\ backed_up.last \in {"backup", "install"}
                         /\ ~r.raised,
             at_backup |-> IF r.raised THEN {} ELSE backed_up.at_backup,
             live_before |-> plugins_dir,
             backup_before |-> plugins_backup]
       /\ UNCHANGED <<config, jenkins_version, call, update_center, environ,
                      construction, decision, frame>>

CleanBackup ==
    LET r == clean_backup(BackupDir)
    IN /\ exists' = [exists EXCEPT !.backup = r.backup.exists]
       /\ plugins_backup' = r.backup.files
       /\ backed_up' =
            [NoBackup EXCEPT !.last = IF r.raised THEN "clean_backup raised"
                                      ELSE "clean_backup"]
       /\ UNCHANGED <<config, jenkins_version, plugins_dir, call,
                      update_center, environ, construction, decision, frame>>

NextBackup == Backup \/ InstallBetween \/ Restore \/ CleanBackup

SpecBackup == InitBackup /\ [][NextBackup]_vars

Restored == backed_up.last = "restore"

(***************************************************************************)
(* C13.  restore() overwrites and does not merge: when it has completed,   *)
(* the live directory holds exactly the files of the backup directory,     *)
(* every file that was only in the live directory is gone, and the backup  *)
(* directory is as it was.                                                 *)
(***************************************************************************)
C13_RestoreOverwrites ==
    Restored =>
        /\ exists.live /\ exists.backup
        /\ plugins_dir = plugins_backup
        /\ plugins_backup = backed_up.backup_before
        /\ (backed_up.live_before \ backed_up.backup_before) \cap plugins_dir = {}

C13_Witness ==
    /\ Restored
    /\ backed_up.live_before \ backed_up.backup_before # {}
    /\ backed_up.backup_before \ backed_up.live_before # {}

(***************************************************************************)
(* C18.  backup(), then any number of install(), then restore() is a round *)
(* trip: the live directory holds exactly the files it held at that        *)
(* backup(), whatever an earlier backup() left in the backup directory.    *)
(***************************************************************************)
C18_BackupRestoreRoundTrip ==
    (Restored /\ backed_up.tracked) => plugins_dir = backed_up.at_backup

====
